---- MODULE Spec2Model ----
(***************************************************************************)
(* PiperTTSAgent.tts_node of python-agent/agent.py: an async generator     *)
(* that turns a lazy sequence of text segments into audio frames by        *)
(* running one "piper" subprocess per non-blank segment and streaming its  *)
(* raw PCM standard output in blocks of at most read_size bytes.           *)
(*                                                                         *)
(* The generator's position (pc) is one of its suspension points:          *)
(*   "next"    awaiting the next segment of text           (line 104)      *)
(*   "spawn"   awaiting asyncio.create_subprocess_exec     (line 108)      *)
(*   "drain"   awaiting proc.stdin.drain()                 (line 118)      *)
(*   "read"    awaiting proc.stdout.read(read_size)        (line 123)      *)
(*   "yielded" suspended at the yield of a frame           (line 127)      *)
(*   "wait"    awaiting proc.wait()                        (line 133)      *)
(*   "done"    returned (the text iterator is exhausted)                   *)
(*   "failed"  an exception left the generator                             *)
(*   "closed"  the consumer closed the generator at a yield                *)
(***************************************************************************)
EXTENDS Integers, Sequences, FiniteSets

VARIABLES text, rate, pc, idx, procs, frames, error, run, prev

vars == <<text, rate, pc, idx, procs, frames, error, run, prev>>

\* ------------------------------------------------------------- bounds
\* Longest input sequence of segments.
MaxFrags == 2
\* Longest standard output, in bytes, of one piper process.
MaxOut == 3

\* Segments the upstream text source may deliver (sequences of characters).
Segments == {<<>>, <<" ">>, <<"a">>, <<" ", "a", " ">>}
\* Values of PIPER_SAMPLE_RATE, scaled down so that read_size is 2 or 4 bytes
\* (50 \div 20 = 2 exercises the floor division). Rates below 20 would give
\* read_size = 0; real model rates are in the thousands.
Rates == {20, 50}

Min(a, b) == IF a < b THEN a ELSE b

RECURSIVE SeqsUpTo(_, _)
SeqsUpTo(S, n) ==
    IF n = 0 THEN {<<>>}
    ELSE LET shorter == SeqsUpTo(S, n - 1)
         IN  shorter \cup {Append(s, x) : s \in {t \in shorter : Len(t) = n - 1}, x \in S}

\* ------------------------------------------------------ configuration
PIPER_SR == rate
PIPER_CH == 1
BYTES_PER_SAMPLE == 2 * PIPER_CH
CHUNK_SAMPLES == PIPER_SR \div 20
read_size == CHUNK_SAMPLES * BYTES_PER_SAMPLE

\* ------------------------------------------------------ pure helpers
Whitespace == {" "}

RECURSIVE LStrip(_)
LStrip(s) == IF Len(s) > 0 /\ Head(s) \in Whitespace THEN LStrip(Tail(s)) ELSE s

RECURSIVE RStrip(_)
RStrip(s) ==
    IF Len(s) > 0 /\ s[Len(s)] \in Whitespace
    THEN RStrip(SubSeq(s, 1, Len(s) - 1))
    ELSE s

\* str.strip()
Strip(s) == RStrip(LStrip(s))

IsBlankEmptyOnly(segment) == Len(segment) = 0

\* not segment or not segment.strip()
IsBlank(segment) == Len(segment) = 0 \/ Len(Strip(segment)) = 0

SegmentIndexReversed(n) == Len(text) + 1 - n

\* async for segment in text: the n-th fetch delivers the n-th segment.
SegmentIndex(n) == n

\* The i-th byte written to standard output by the process of segment frag:
\* distinct for every (segment, offset), so that a dropped, repeated,
\* reordered or foreign byte shows in a frame's data.
PiperByte(frag, i) == (16 * frag + i) % 256

\* The standard output of the process launched for segment frag, n bytes long.
PiperOutput(frag, n) == [i \in 1..n |-> PiperByte(frag, i)]

\* The current process handle (the local variable proc).
proc == Len(procs)

SamplesPerChannel(buf) == Len(buf) \div BYTES_PER_SAMPLE

FrameDataWholeSamples(buf) == SubSeq(buf, 1, (Len(buf) \div BYTES_PER_SAMPLE) * BYTES_PER_SAMPLE)

\* data=buf
FrameData(buf) == buf

\* rtc.AudioFrame(data=buf, sample_rate=PIPER_SR, num_channels=PIPER_CH,
\* samples_per_channel=len(buf) // BYTES_PER_SAMPLE); frag and proc record
\* the segment and the process the frame was produced from.
AudioFrame(buf) ==
    [data |-> FrameData(buf),
     sample_rate |-> PIPER_SR,
     num_channels |-> PIPER_CH,
     samples_per_channel |-> SamplesPerChannel(buf),
     frag |-> procs[proc].frag,
     proc |-> proc]

AfterEofNoWait == "next"

\* if not buf: break, then await proc.wait()
AfterEof == "wait"

OnFailureContinue == "next"

\* No try/except: an exception of an awaited call leaves the generator.
OnFailure == "failed"

AfterWaitReadAgain == "read"

\* After await proc.wait() the for loop asks for the next segment.
AfterWait == "next"

\* ------------------------------------------------------------- state
NoPrev == [done |-> FALSE, lens |-> <<>>, outs |-> <<>>]

Init ==
    /\ text \in SeqsUpTo(Segments, MaxFrags)
    /\ rate \in Rates
    /\ pc = "next"
    /\ idx = 0
    /\ procs = <<>>
    /\ frames = <<>>
    /\ error = "none"
    /\ run = 1
    /\ prev = NoPrev

\* The text iterator is exhausted: the generator returns.
TextEnd ==
    /\ pc = "next"
    /\ idx = Len(text)
    /\ pc' = "done"
    /\ UNCHANGED <<text, rate, idx, procs, frames, error, run, prev>>

\* A blank segment: continue.
SkipBlank ==
    /\ pc = "next"
    /\ idx < Len(text)
    /\ IsBlank(text[SegmentIndex(idx + 1)])
    /\ idx' = idx + 1
    /\ UNCHANGED <<text, rate, pc, procs, frames, error, run, prev>>

\* A non-blank segment: call create_subprocess_exec and await it.
TakeSegment ==
    /\ pc = "next"
    /\ idx < Len(text)
    /\ ~IsBlank(text[SegmentIndex(idx + 1)])
    /\ idx' = idx + 1
    /\ pc' = "spawn"
    /\ UNCHANGED <<text, rate, procs, frames, error, run, prev>>

\* create_subprocess_exec returns a process; proc.stdin.write(...) and
\* await proc.stdin.drain(). The process's output is what piper produces for
\* the segment: any output in the first invocation, the same output again in
\* a repeated invocation.
SpawnOk ==
    /\ pc = "spawn"
    /\ \E n \in 0..MaxOut :
          /\ prev.done => n = Len(prev.outs[SegmentIndex(idx)])
          /\ procs' = Append(procs,
                [frag |-> SegmentIndex(idx),
                 out |-> PiperOutput(SegmentIndex(idx), n),
                 pos |-> 0,
                 eof |-> FALSE,
                 stdin |-> "open",
                 awaited |-> FALSE])
    /\ pc' = "drain"
    /\ UNCHANGED <<text, rate, idx, frames, error, run, prev>>

\* create_subprocess_exec raises (piper not found, not executable).
SpawnFail ==
    /\ pc = "spawn"
    /\ pc' = OnFailure
    /\ error' = "launch"
    /\ UNCHANGED <<text, rate, idx, procs, frames, run, prev>>

\* drain returns; proc.stdin.close(); the first read is awaited.
DrainOk ==
    /\ pc = "drain"
    /\ procs' = [procs EXCEPT ![proc].stdin = "closed"]
    /\ pc' = "read"
    /\ UNCHANGED <<text, rate, idx, frames, error, run, prev>>

\* drain raises (the pipe is broken or reset).
DrainFail ==
    /\ pc = "drain"
    /\ pc' = OnFailure
    /\ error' = "write"
    /\ UNCHANGED <<text, rate, idx, procs, frames, run, prev>>

\* StreamReader.read(read_size) returns between 1 and read_size of the bytes
\* not yet read, as soon as at least one is buffered; the frame is yielded.
ReadBlock ==
    /\ pc = "read"
    /\ \E k \in 1..Min(read_size, Len(procs[proc].out) - procs[proc].pos) :
          LET p == procs[proc]
              buf == SubSeq(p.out, p.pos + 1, p.pos + k)
          IN  /\ frames' = Append(frames, AudioFrame(buf))
              /\ procs' = [procs EXCEPT ![proc].pos = p.pos + k]
    /\ pc' = "yielded"
    /\ UNCHANGED <<text, rate, idx, error, run, prev>>

\* read returns b"" at end of stream: break, and proc.wait() is awaited.
ReadEof ==
    /\ pc = "read"
    /\ procs[proc].pos = Len(procs[proc].out)
    /\ procs' = [procs EXCEPT ![proc].eof = TRUE]
    /\ pc' = AfterEof
    /\ UNCHANGED <<text, rate, idx, frames, error, run, prev>>

\* read raises (an error of the output pipe).
ReadFail ==
    /\ pc = "read"
    /\ pc' = OnFailure
    /\ error' = "read"
    /\ UNCHANGED <<text, rate, idx, procs, frames, run, prev>>

\* The consumer asks for the next frame: the generator resumes after yield.
Resume ==
    /\ pc = "yielded"
    /\ pc' = "read"
    /\ UNCHANGED <<text, rate, idx, procs, frames, error, run, prev>>

\* The consumer closes the generator instead (aclose): GeneratorExit is
\* raised at the yield, and no finally or except clause handles it.
Abandon ==
    /\ pc = "yielded"
    /\ pc' = "closed"
    /\ UNCHANGED <<text, rate, idx, procs, frames, error, run, prev>>

\* proc.wait() returns: the process has exited and is reaped.
WaitDone ==
    /\ pc = "wait"
    /\ procs' = [procs EXCEPT ![proc].awaited = TRUE]
    /\ pc' = AfterWait
    /\ UNCHANGED <<text, rate, idx, frames, error, run, prev>>

FrameLens(fs) == [i \in 1..Len(fs) |-> Len(fs[i].data)]

OutputOf(ps, i) ==
    IF \E p \in 1..Len(ps) : ps[p].frag = i
    THEN ps[CHOOSE p \in 1..Len(ps) : ps[p].frag = i].out
    ELSE <<>>

\* tts_node is called again with the same text and configuration, after a
\* first call that returned normally.
Reinvoke ==
    /\ pc = "done"
    /\ run = 1
    /\ run' = 2
    /\ prev' = [done |-> TRUE,
                lens |-> FrameLens(frames),
                outs |-> [i \in 1..Len(text) |-> OutputOf(procs, i)]]
    /\ pc' = "next"
    /\ idx' = 0
    /\ procs' = <<>>
    /\ frames' = <<>>
    /\ UNCHANGED <<text, rate, error>>

\* The steps in which every awaited call succeeds and the consumer keeps
\* pulling frames.
NextOk ==
    \/ TextEnd
    \/ SkipBlank
    \/ TakeSegment
    \/ SpawnOk
    \/ DrainOk
    \/ ReadBlock
    \/ ReadEof
    \/ Resume
    \/ WaitDone

NextFail ==
    \/ SpawnFail
    \/ DrainFail
    \/ ReadFail
    \/ Abandon

Next == NextOk \/ NextFail

\* One invocation of tts_node, with every outcome of every awaited call.
Spec == Init /\ [][Next]_vars

\* Two invocations with the same text, configuration and process outputs.
NextTwice == NextOk \/ Reinvoke

TwiceSpec == Init /\ [][NextTwice]_vars

\* One invocation in which the event loop keeps running the generator, every
\* awaited call eventually returns and the consumer keeps pulling.
LiveSpec == Init /\ [][NextOk]_vars /\ WF_vars(NextOk)

TypeOK ==
    /\ pc \in {"next", "spawn", "drain", "read", "yielded", "wait", "done", "failed", "closed"}
    /\ idx \in 0..Len(text)
    /\ error \in {"none", "launch", "write", "read"}
    /\ run \in {1, 2}

\* ------------------------------------------------------------ claims
\* A segment that is empty or made of whitespace only, stated without strip.
EmptyOrWhitespace(s) == \A i \in 1..Len(s) : s[i] \in Whitespace

ProcsOf(i) == {p \in 1..Len(procs) : procs[p].frag = i}

FramesOfSegment(i) == {a \in 1..Len(frames) : frames[a].frag = i}

\* The concatenation of the data of the frames produced from process p.
RECURSIVE DataOf(_, _)
DataOf(fs, p) ==
    IF Len(fs) = 0 THEN <<>>
    ELSE IF Head(fs).proc = p THEN Head(fs).data \o DataOf(Tail(fs), p)
    ELSE DataOf(Tail(fs), p)

\* C1: for every segment that is empty or whitespace-only, wherever it sits
\* in the input, no process is launched and no frame is emitted; processing
\* goes on with the next segment, so that a call that returns has launched a
\* process for every non-blank segment, also for one that follows a blank.
C1_BlankSkipped ==
    /\ \A i \in 1..Len(text) :
          EmptyOrWhitespace(text[i]) => ProcsOf(i) = {} /\ FramesOfSegment(i) = {}
    /\ pc = "done" =>
          \A i \in 1..Len(text) : ~EmptyOrWhitespace(text[i]) => ProcsOf(i) # {}

C1_Witness ==
    /\ pc = "done"
    /\ Len(text) = 2
    /\ text[1] = <<" ">>
    /\ FramesOfSegment(2) # {}

\* C2: frames are emitted in segment order (a frame of segment i never
\* follows a frame of a later segment), and every frame carries bytes of one
\* process only, the process of the frame's own segment.
C2_FrameOrder ==
    /\ \A a, b \in 1..Len(frames) : a < b => frames[a].frag <= frames[b].frag
    /\ \A a \in 1..Len(frames) :
          LET f == frames[a]
          IN  /\ f.proc \in 1..Len(procs)
              /\ procs[f.proc].frag = f.frag
              /\ \A j \in 1..Len(f.data) :
                    \E i \in 1..Len(procs[f.proc].out) : f.data[j] = PiperByte(f.frag, i)

C2_Witness ==
    \E a, b \in 1..Len(frames) : a < b /\ frames[a].frag < frames[b].frag

\* C3: at most one process is launched and not yet awaited, and when a
\* process exists for a later segment, every earlier process has been read to
\* end of stream and awaited.
C3_OneProcessAtATime ==
    /\ Cardinality({p \in 1..Len(procs) : ~procs[p].awaited}) <= 1
    /\ \A p \in 1..Len(procs) :
          p < Len(procs) =>
             /\ procs[p].eof
             /\ procs[p].pos = Len(procs[p].out)
             /\ procs[p].awaited

C3_Witness == Len(procs) = 2 /\ ~procs[2].awaited

\* C4: when the call has ended (returned, failed or been closed by the
\* consumer), every process it launched has been awaited.
C4_NoProcessLeft ==
    pc \in {"done", "failed", "closed"} => \A p \in 1..Len(procs) : procs[p].awaited

\* C5: when the launch or the write fails for a segment, the call fails with
\* that error and stops there: the frames of the earlier segments are all
\* delivered, no frame is emitted for the failing segment, the launch is not
\* retried, and no later segment is consumed, launched or emitted.
C5_LaunchWriteFailure ==
    error \in {"launch", "write"} =>
       /\ pc = "failed"
       /\ ~ENABLED Next
       /\ FramesOfSegment(idx) = {}
       /\ Cardinality(ProcsOf(idx)) = (IF error = "launch" THEN 0 ELSE 1)
       /\ \A i \in 1..Len(text) : i > idx => ProcsOf(i) = {} /\ FramesOfSegment(i) = {}
       /\ \A p \in 1..Len(procs) :
             procs[p].frag < idx => DataOf(frames, p) = procs[p].out

C5_Witness ==
    /\ error = "launch"
    /\ pc = "failed"
    /\ idx = 2
    /\ FramesOfSegment(1) # {}

\* C6: every emitted frame has
\* len(data) = samples_per_channel * channel_count * bytes_per_sample,
\* with one channel and two bytes per sample.
C6_FrameSize ==
    \A a \in 1..Len(frames) :
       /\ frames[a].num_channels = 1
       /\ Len(frames[a].data) = frames[a].samples_per_channel * frames[a].num_channels * 2

\* C7: the frames of a process carry exactly the bytes read from it so far,
\* in order, one non-empty frame per block read; once the output has been
\* read to end of stream they carry the whole output of the process.
C7_FramesCarryOutput ==
    /\ \A a \in 1..Len(frames) : Len(frames[a].data) > 0
    /\ \A p \in 1..Len(procs) :
          /\ DataOf(frames, p) = SubSeq(procs[p].out, 1, procs[p].pos)
          /\ procs[p].eof => DataOf(frames, p) = procs[p].out

C7_Witness ==
    \E p \in 1..Len(procs) :
       /\ procs[p].eof
       /\ Len(procs[p].out) = 3
       /\ Cardinality({a \in 1..Len(frames) : frames[a].proc = p}) = 2

\* C8: no frame is longer than read_size bytes, and every frame of a
\* process that is followed by another frame of the same process carries
\* exactly read_size bytes.
C8_FixedSizeBlocks ==
    \A a \in 1..Len(frames) :
       /\ Len(frames[a].data) <= read_size
       /\ (\E b \in 1..Len(frames) : a < b /\ frames[b].proc = frames[a].proc)
             => Len(frames[a].data) = read_size

\* C9: a second invocation with the same text, configuration and process
\* outputs returns frames with the same byte lengths, position by position.
C9_SameFrameLengths ==
    (run = 2 /\ pc = "done") => FrameLens(frames) = prev.lens

\* C10: when every awaited call returns and the consumer keeps pulling, the
\* call eventually returns, having launched exactly one process per non-blank
\* segment and awaited each of them after reading its output to end of stream.
C10_Terminates ==
    <>(/\ pc = "done"
       /\ \A i \in 1..Len(text) :
             Cardinality(ProcsOf(i)) = (IF EmptyOrWhitespace(text[i]) THEN 0 ELSE 1)
       /\ \A p \in 1..Len(procs) : procs[p].eof /\ procs[p].awaited)

C10_Witness ==
    /\ pc = "done"
    /\ Len(procs) = 2
    /\ \A p \in 1..Len(procs) : procs[p].eof /\ procs[p].awaited
====
